---- MODULE Spec2Model ----
(***************************************************************************)
(* A model of the chain library: the block pool (block::get_block), the    *)
(* link list of (block, offset, length) tuples (block_links) and the       *)
(* value type chain_t (operator= and swap).                                *)
(*                                                                         *)
(* Conventions.                                                            *)
(*  - A block pointer is a block id; Null is nullptr.  Ids are handed out  *)
(*    in allocation order; the function-local static root is block Root.   *)
(*  - size_t values are kept as integers; the only subtraction that can    *)
(*    go below zero is --refcount on an already released block, and a      *)
(*    negative number then stands for the wrapped value (2^64 - n), which  *)
(*    is non-zero exactly like the wrapped value.                          *)
(*  - A released block keeps its last field values (stale memory); its     *)
(*    state is "freed".  Touching such a block is undefined behaviour:     *)
(*    the model lets the program either go on with the stale values or     *)
(*    stop (action Fault).                                                 *)
(*  - assert is compiled out under NDEBUG (chain.hpp:20-24).  The build is *)
(*    chosen in Init; a failing assert stops a debug build.                *)
(*  - Reading a page cell that was never written, a null page, or a cell   *)
(*    outside the page yields Undef.                                       *)
(***************************************************************************)
EXTENDS Integers, Sequences, FiniteSets, TLC

\* ------------------------------------------------------------- bounds
MaxBlocks == 6
MaxLists == 5
MaxChains == 2
MaxLen == 2
MaxTotal == 6
MaxSlice == 3
MaxSteps == 4
MaxChainSteps == 3
NumAllocs == 3
PageSize == 2

\* ---------------------------------------------------------- constants
Null == 0
Root == 1
Undef == 0
\* The allocator of the chain typedefs (std::allocator).
DefaultAlloc == 1

BlockIds == 1..MaxBlocks
ListIds == 1..MaxLists
ChainIds == 1..MaxChains
Allocs == 1..NumAllocs

\* blocks, last_block: the pool (the blocks and get_block's static tail
\* pointer); lists: the block_links objects; chains: the chain_t objects;
\* ndebug, aborted: the build and whether the process has stopped;
\* stamp: the number of elements handed to get_block by callers so far
\* (every caller's contents are made of elements not used before);
\* op, pre: the last operation with its arguments, and the state it ran in.
\* steps: the number of operations run so far.
VARIABLES blocks, last_block, lists, chains, ndebug, aborted, stamp, steps,
          op, pre

vars == <<blocks, last_block, lists, chains, ndebug, aborted, stamp, steps,
          op, pre>>

\* ------------------------------------------------------------ helpers
Min(a, b) == IF a < b THEN a ELSE b

\* The element of a one-element set.  Only({e(x) : x \in {v}}) is e(v) with
\* v worked out once, however often e uses it.
Only(S) == CHOOSE x \in S : TRUE

\* The caller's contents of n elements: elements no earlier call has used,
\* so that every element of every page tells where it came from.
Fresh(n) == [i \in 1..n |-> stamp + i]

RECURSIVE SumLen(_)
SumLen(links) ==
  IF links = <<>> THEN 0 ELSE Head(links).length + SumLen(Tail(links))

\* -------------------------------------------------------------- block
\* A block address nothing has been constructed at yet.
NoBlock ==
  [state |-> "unborn", allocator |-> 0, page |-> <<>>, filled |-> 0,
   next |-> Null, previous |-> Null, refcount |-> 0, deleted |-> 0]

\* block{allocator, nullptr, 0, nullptr, previous, 1}
NewBlock(allocator, previous) ==
  [state |-> "live", allocator |-> allocator, page |-> <<>>, filled |-> 0,
   next |-> Null, previous |-> previous, refcount |-> 1, deleted |-> 0]

\* The address operator new hands out next.
FreshId(bs) == 1 + Cardinality({b \in BlockIds : bs[b].state # "unborn"})

\* A segment of a link list: tuple<block*, size_t, size_t>.
Seg(b, o, n) == [block |-> b, offset |-> o, length |-> n]

\* ~block(): the page is given back, the neighbours are relinked.  The
\* field deleted counts how often the block has been deleted.
DeleteBlock(bs, b) ==
  LET p == bs[b].previous
      n == bs[b].next
      b1 == [bs EXCEPT ![b].page = <<>>, ![b].state = "freed",
                       ![b].deleted = @ + 1]
      b2 == IF p # Null THEN [b1 EXCEPT ![p].next = n] ELSE b1
      b3 == IF n # Null THEN [b2 EXCEPT ![n].previous = p] ELSE b2
  IN  b3

\* if (!--current_block->refcount) delete current_block;
DecRef(bs, b) ==
  LET b1 == [bs EXCEPT ![b].refcount = @ - 1]
  IN  IF b1[b].refcount = 0 THEN DeleteBlock(b1, b) ELSE b1

\* ---------------------------------------------------------- get_block
\* while (current_block->filled == page_size && current_block->next != nullptr)
RECURSIVE SkipFull(_, _)
SkipFull(bs, b) ==
  IF bs[b].filled = PageSize /\ bs[b].next # Null
  THEN SkipFull(bs, bs[b].next) ELSE b

\* contents.size() / page_size + (contents.size() % page_size > 0)
NumBlocks(n) == (n \div PageSize) + (IF n % PageSize > 0 THEN 1 ELSE 0)

\* begin = segment_end; filled += std::distance(begin, segment_end);
\* the distance is taken after begin has been moved onto segment_end.
FilledIncrement(k) == 0

\* The page allocate(page_size) returns, after std::copy of k elements.
FilledPage(rest, k) ==
  [i \in 1..PageSize |-> IF i <= k THEN rest[i] ELSE Undef]

\* The for loop of get_block: one page and one new successor per round.
RECURSIVE FillLoop(_, _, _, _, _)
FillLoop(bs, current, rest, numblocks, allocator) ==
  IF numblocks = 0 THEN [blocks |-> bs, current |-> current]
  ELSE LET k == Min(PageSize, Len(rest))
           new == FreshId(bs)
           b1 == [bs EXCEPT ![current].page = FilledPage(rest, k),
                            ![current].filled = @ + FilledIncrement(k),
                            ![current].next = new,
                            ![new] = NewBlock(allocator, current)]
       IN  FillLoop(b1, new, SubSeq(rest, k + 1, Len(rest)), numblocks - 1,
                    allocator)

\* The function-local statics root and last_block, set up by the first call.
StaticInit(bs, last, allocator) ==
  IF bs[Root].state = "unborn"
  THEN [blocks |-> [bs EXCEPT ![Root] = NewBlock(allocator, Null)],
        last |-> Root]
  ELSE [blocks |-> bs, last |-> last]

\* get_block(contents, allocator): the pool after the call and the tuple
\* {returned_block, offset, contents.size()}.
GetBlock(bs, last, contents, allocator) ==
  Only({
    Only({
      Only({ [blocks |-> f.blocks, last |-> f.current,
              t |-> Seg(current, s.blocks[current].filled, Len(contents))] :
             f \in {FillLoop(s.blocks, current, contents,
                             NumBlocks(Len(contents)), allocator)} }) :
      current \in {SkipFull(s.blocks, s.last)} }) :
    s \in {StaticInit(bs, last, allocator)} })

\* Blocks get_block(contents) constructs: the root on the first call and
\* one successor per page.
BlocksNeeded(bs, contents) ==
  NumBlocks(Len(contents)) + (IF bs[Root].state = "unborn" THEN 1 ELSE 0)

HasRoom(bs, contents) ==
  FreshId(bs) - 1 + BlocksNeeded(bs, contents) <= MaxBlocks

\* -------------------------------------------------------- block_links
\* The while loop of the constructor, current_block being get<0>(t) (the
\* reference is declared without an initializer); the pushed length is the
\* value of total_length after the subtraction.
RECURSIVE CtorLoop(_, _, _, _, _)
CtorLoop(bs, links, current, offset, total) ==
  IF current # Null /\ total # 0
  THEN LET left == total - (bs[current].filled - offset)
       IN  CtorLoop(bs, Append(links, Seg(current, offset, left)),
                    bs[current].next, 0, left)
  ELSE [links |-> links, current |-> current, total |-> total]

\* block_links(t): the deque built, and whether the final assert holds.
LinksCtor(bs, t) ==
  LET r == CtorLoop(bs, <<>>, t.block, t.offset, t.length)
  IN  [links |-> r.links, ok |-> (r.current # Null /\ r.total = 0)]

\* append(t): only the case of the same block as links.back() has code.
LinksAppend(bs, links, t) ==
  IF links[Len(links)].block = t.block
  THEN [blocks |-> [bs EXCEPT ![t.block].refcount = @ + 1],
        links |-> [links EXCEPT ![Len(links)].length = @ + t.length]]
  ELSE [blocks |-> bs, links |-> links]

\* if (offset > block_length): the leading tuple is dropped.
SliceDrops(offset, block_length) == offset > block_length

SliceEndsInclusive(length, block_length) == length <= block_length

\* if (length < block_length): the walk ends in this tuple.
SliceEnds(length, block_length) == length < block_length

\* The range-for of slice.  i is the iterator's position in the deque; a
\* pop_front under the iterator leaves the next tuple at the same position
\* (the iterator is used after the pop: the usual deque goes on to the next
\* element).
RECURSIVE SliceLoop(_, _, _, _, _)
SliceLoop(bs, links, i, offset, length) ==
  IF i > Len(links)
  THEN [blocks |-> bs, links |-> links, offset |-> offset, length |-> length]
  ELSE LET t == links[i]
       IN  IF SliceDrops(offset, t.length)
           THEN SliceLoop(DecRef(bs, t.block), Tail(links), i,
                          offset - t.length, length)
           ELSE IF offset # 0
           THEN SliceLoop(bs,
                          [links EXCEPT ![i].offset = @ + offset,
                                        ![i].length = @ - offset],
                          i + 1, 0, length)
           ELSE IF SliceEnds(length, t.length)
           THEN LET l1 == [links EXCEPT ![i].length = @ - length]
                IN  IF l1[i].length = 0
                    THEN [blocks |-> DecRef(bs, t.block),
                          links |-> SubSeq(l1, 1, Len(l1) - 1),
                          offset |-> offset, length |-> length]
                    ELSE [blocks |-> bs, links |-> l1,
                          offset |-> offset, length |-> length]
           ELSE SliceLoop(bs, links, i + 1, offset, length - t.length)

\* slice(offset, length): the pool and the deque after the walk, and the
\* offset and length the final assert looks at.
LinksSlice(bs, links, offset, length) == SliceLoop(bs, links, 1, offset, length)

\* ~block_links(): every tuple gives up its reference, front to back.  The
\* root is deleted like any other block when its count reaches zero.
RECURSIVE LinksDtor(_, _)
LinksDtor(bs, links) ==
  IF links = <<>> THEN bs
  ELSE LinksDtor(DecRef(bs, Head(links).block), Tail(links))

\* ------------------------------------------------------------ content
\* The element a tuple refers to at index i of block b.
Cell(bs, b, i) ==
  IF /\ b \in BlockIds
     /\ bs[b].state = "live"
     /\ i + 1 \in DOMAIN bs[b].page
  THEN bs[b].page[i + 1] ELSE Undef

SegContent(bs, s) ==
  [k \in 1..s.length |-> Cell(bs, s.block, s.offset + k - 1)]

\* The logical content: the tuples' elements, in order.
RECURSIVE Content(_, _)
Content(bs, links) ==
  IF links = <<>> THEN <<>>
  ELSE SegContent(bs, Head(links)) \o Content(bs, Tail(links))

\* Number of tuples of live link lists that refer to block b.
RefsIn(links, b) == Cardinality({i \in DOMAIN links : links[i].block = b})

RECURSIVE SumRefs(_, _, _)
SumRefs(ls, S, b) ==
  IF S = {} THEN 0
  ELSE LET l == CHOOSE x \in S : TRUE
       IN  (IF ls[l].state = "live" THEN RefsIn(ls[l].links, b) ELSE 0)
           + SumRefs(ls, S \ {l}, b)

Referrers(ls, b) == SumRefs(ls, ListIds, b)

\* ------------------------------------------------------------- state
NoList == [state |-> "unborn", links |-> <<>>]

LiveLists == {l \in ListIds : lists[l].state = "live"}

FreshList == 1 + Cardinality({l \in ListIds : lists[l].state # "unborn"})

\* A chain_t not constructed yet, and a constructed one: its allocator_
\* and its links_, which points at a block_links object or at none.
NoChain == [state |-> "unborn", allocator |-> 0, links |-> Null]

Chain(allocator, links) ==
  [state |-> "live", allocator |-> allocator, links |-> links]

LiveChains == {c \in ChainIds : chains[c].state = "live"}

FreshChain == 1 + Cardinality(LiveChains)

NoOp ==
  [name |-> "init", l |-> 0, r |-> 0, contents |-> <<>>, offset |-> 0,
   length |-> 0, t |-> Seg(Null, 0, 0), endOffset |-> 0, endLength |-> 0,
   ok |-> TRUE]

Snapshot == [blocks |-> blocks, last_block |-> last_block, lists |-> lists,
             chains |-> chains]

Init ==
  /\ blocks = [b \in BlockIds |-> NoBlock]
  /\ last_block = Null
  /\ lists = [l \in ListIds |-> NoList]
  /\ chains = [c \in ChainIds |-> NoChain]
  /\ ndebug \in BOOLEAN
  /\ aborted = FALSE
  /\ stamp = 0
  /\ steps = 0
  /\ op = NoOp
  /\ pre = [blocks |-> blocks, last_block |-> last_block, lists |-> lists,
            chains |-> chains]

\* The process is alive and the run is within its bound.
Running == ~aborted /\ steps < MaxSteps

\* A failing assert ends a debug build, and so may any use of a released
\* block or of back() on an empty deque; the dead process has no state.
Abort ==
  /\ aborted' = TRUE
  /\ steps' = steps + 1
  /\ op' = [NoOp EXCEPT !.name = "abort", !.ok = FALSE]
  /\ UNCHANGED <<blocks, last_block, lists, chains, ndebug, stamp, pre>>

\* A link list built from n new elements: block_links(get_block(contents)).
Construct(n, allocator) ==
  /\ Running
  /\ FreshList <= MaxLists
  /\ HasRoom(blocks, Fresh(n))
  /\ \E g \in {GetBlock(blocks, last_block, Fresh(n), allocator)} :
     \E c \in {LinksCtor(g.blocks, g.t)} :
         IF ~c.ok /\ ~ndebug THEN Abort
         ELSE /\ blocks' = g.blocks
              /\ last_block' = g.last
              /\ lists' = [lists EXCEPT ![FreshList] =
                             [state |-> "live", links |-> c.links]]
              /\ stamp' = stamp + n
              /\ op' = [NoOp EXCEPT !.name = "construct", !.l = FreshList,
                                    !.contents = Fresh(n), !.t = g.t,
                                    !.ok = c.ok]
              /\ pre' = Snapshot
              /\ steps' = steps + 1
              /\ UNCHANGED <<chains, ndebug, aborted>>

\* The tuple that describes link list r to a caller of append: where its
\* content begins and how long it is.
Descriptor(links) ==
  Seg(Head(links).block, Head(links).offset, SumLen(links))

\* lists[l].append(t), t describing the live link list r (r may be l).
\* On an empty deque links.back() is undefined: the comparison reads no
\* tuple, and the call either changes nothing or ends the process.
AppendList(l, r) ==
  /\ Running
  /\ lists[l].state = "live" /\ lists[r].state = "live"
  /\ lists[r].links # <<>>
  /\ SumLen(lists[l].links) + SumLen(lists[r].links) <= MaxTotal
  /\ \E t \in {Descriptor(lists[r].links)} :
     \E a \in {IF lists[l].links = <<>>
                THEN [blocks |-> blocks, links |-> <<>>]
                ELSE LinksAppend(blocks, lists[l].links, t)} :
     \E crash \in (IF lists[l].links = <<>> THEN BOOLEAN ELSE {FALSE}) :
         IF crash THEN Abort
         ELSE /\ blocks' = a.blocks
              /\ lists' = [lists EXCEPT ![l].links = a.links]
              /\ op' = [NoOp EXCEPT !.name = "append", !.l = l, !.r = r,
                                    !.t = t]
              /\ pre' = Snapshot
              /\ steps' = steps + 1
              /\ UNCHANGED <<last_block, chains, ndebug, aborted, stamp>>

\* lists[l].append(get_block(contents)): the tuple goes from the pool
\* straight into append.
AppendFresh(l, n, allocator) ==
  /\ Running
  /\ lists[l].state = "live"
  /\ lists[l].links # <<>>
  /\ n > 0
  /\ SumLen(lists[l].links) + n <= MaxTotal
  /\ HasRoom(blocks, Fresh(n))
  /\ \E g \in {GetBlock(blocks, last_block, Fresh(n), allocator)} :
     \E a \in {LinksAppend(g.blocks, lists[l].links, g.t)} :
         /\ blocks' = a.blocks
         /\ last_block' = g.last
         /\ lists' = [lists EXCEPT ![l].links = a.links]
         /\ stamp' = stamp + n
         /\ op' = [NoOp EXCEPT !.name = "appendfresh", !.l = l,
                               !.contents = Fresh(n), !.t = g.t]
         /\ pre' = Snapshot
         /\ steps' = steps + 1
         /\ UNCHANGED <<chains, ndebug, aborted>>

\* The walk of slice(offset, length) pops the tuple its iterator stands on.
PopsUnderIterator(links, offset) ==
  links # <<>> /\ SliceDrops(offset, links[1].length)

\* lists[l].slice(offset, length); requests reach one element past the end.
\* Stepping an iterator whose tuple was popped is undefined: the walk goes
\* on as SliceLoop has it, or the process ends.  The assert comes after the
\* walk: a debug build that fails it stops with the walk's changes made.
Slice(l, offset, length) ==
  /\ Running
  /\ lists[l].state = "live"
  /\ offset + length <= Min(SumLen(lists[l].links) + 1, MaxSlice)
  /\ \E s \in {LinksSlice(blocks, lists[l].links, offset, length)} :
     \E ok \in {s.offset = 0 /\ s.length = 0} :
     \E crash \in (IF PopsUnderIterator(lists[l].links, offset)
                   THEN BOOLEAN ELSE {FALSE}) :
         IF crash THEN Abort
         ELSE /\ blocks' = s.blocks
              /\ lists' = [lists EXCEPT ![l].links = s.links]
              /\ aborted' = (~ok /\ ~ndebug)
              /\ op' = [NoOp EXCEPT !.name = "slice", !.l = l,
                                    !.offset = offset, !.length = length,
                                    !.endOffset = s.offset,
                                    !.endLength = s.length, !.ok = ok]
              /\ pre' = Snapshot
              /\ steps' = steps + 1
              /\ UNCHANGED <<last_block, chains, ndebug, stamp>>

\* lists[l] is destroyed.
Destroy(l) ==
  /\ Running
  /\ lists[l].state = "live"
  /\ blocks' = LinksDtor(blocks, lists[l].links)
  /\ lists' = [lists EXCEPT ![l] = [state |-> "dead", links |-> <<>>]]
  /\ op' = [NoOp EXCEPT !.name = "destroy", !.l = l]
  /\ pre' = Snapshot
  /\ steps' = steps + 1
  /\ UNCHANGED <<last_block, chains, ndebug, aborted, stamp>>

\* The pool's tail or a tuple of a live link list points at a released
\* block: the next use of it is undefined, and may end the process.
Dangling ==
  \/ last_block # Null /\ blocks[last_block].state = "freed"
  \/ \E l \in LiveLists : \E i \in DOMAIN lists[l].links :
       blocks[lists[l].links[i].block].state = "freed"

Fault ==
  /\ ~aborted
  /\ Dangling
  /\ Abort

Next ==
  \/ \E n \in 0..MaxLen : Construct(n, DefaultAlloc)
  \/ \E l, r \in ListIds : AppendList(l, r)
  \/ \E l \in ListIds, n \in 1..MaxLen : AppendFresh(l, n, DefaultAlloc)
  \/ \E l \in ListIds, o, n \in 0..MaxSlice : Slice(l, o, n)
  \/ \E l \in ListIds : Destroy(l)
  \/ Fault

Spec == Init /\ [][Next]_vars

\* ------------------------------------------------------------ chain_t
\* *other.allocator_ == *allocator_: allocator objects of one kind compare
\* equal (odd and even ids are the two kinds).
AllocEq(a, b) == (a % 2) = (b % 2)

\* The tuples a chain refers to through links_.
ChainLinks(ls, c) == IF c.links = Null THEN <<>> ELSE ls[c.links].links

ChainContent(bs, ls, c) == Content(bs, ChainLinks(ls, c))

\* operator==: equal allocators and the same links, or else the same
\* elements.
ChainEq(bs, ls, x, y) ==
  \/ AllocEq(x.allocator, y.allocator) /\ ChainLinks(ls, x) = ChainLinks(ls, y)
  \/ ChainContent(bs, ls, x) = ChainContent(bs, ls, y)

\* The next block_links object.
NewListId(ls) == 1 + Cardinality({l \in ListIds : ls[l].state # "unborn"})

RECURSIVE ShareAll(_, _)
ShareAll(bs, links) ==
  IF links = <<>> THEN bs
  ELSE ShareAll([bs EXCEPT ![Head(links).block].refcount = @ + 1],
                Tail(links))

CopyCtorFirst(bs, ls, other) ==
  IF other.links = Null \/ ls[other.links].links = <<>>
  THEN [blocks |-> bs, lists |-> ls, chain |-> Chain(other.allocator, Null)]
  ELSE LET id == NewListId(ls)
           first == <<Head(ls[other.links].links)>>
       IN  [blocks |-> ShareAll(bs, first),
            lists |-> [ls EXCEPT ![id] = [state |-> "live", links |-> first]],
            chain |-> Chain(other.allocator, id)]

\* chain_t(chain_t const &other): the copy has other's allocator and a
\* link list of its own with the same tuples, each block shared once more.
CopyCtor(bs, ls, other) ==
  IF other.links = Null
  THEN [blocks |-> bs, lists |-> ls, chain |-> Chain(other.allocator, Null)]
  ELSE LET id == NewListId(ls)
       IN  [blocks |-> ShareAll(bs, ls[other.links].links),
            lists |-> [ls EXCEPT ![id] =
                         [state |-> "live", links |-> ls[other.links].links]],
            chain |-> Chain(other.allocator, id)]

\* this->copy_links(other): other's elements are put into blocks of this
\* chain's allocator and a link list is built on them; a failed copy backs
\* out and leaves this chain as it was.
CopyLinks(bs, last, ls, this, other, fails) ==
  IF fails
  THEN [blocks |-> bs, last |-> last, lists |-> ls, chain |-> this, ok |-> TRUE]
  ELSE Only({
         Only({ [blocks |-> g.blocks, last |-> g.last,
                 lists |-> [ls EXCEPT ![NewListId(ls)] =
                              [state |-> "live", links |-> c.links]],
                 chain |-> [this EXCEPT !.links = NewListId(ls)],
                 ok |-> c.ok] :
                c \in {LinksCtor(g.blocks, g.t)} }) :
         g \in {GetBlock(bs, last, ChainContent(bs, ls, other),
                         this.allocator)} })

\* The end of swap's else branch: the failure test, then the two
\* assignments.  ret is the value returned.
SwapCommitEarly(failed, this, other, temporary_this, temporary_that) ==
  IF failed
  THEN [this |-> [this EXCEPT !.links = temporary_this.links],
        other |-> other, ret |-> FALSE]
  ELSE [this |-> [this EXCEPT !.links = temporary_this.links],
        other |-> [other EXCEPT !.links = temporary_that.links],
        ret |-> TRUE]

SwapCommit(failed, this, other, temporary_this, temporary_that) ==
  IF failed
  THEN [this |-> this, other |-> other, ret |-> FALSE]
  ELSE [this |-> [this EXCEPT !.links = temporary_this.links],
        other |-> [other EXCEPT !.links = temporary_that.links],
        ret |-> TRUE]

SwapObjects(this, other) == [this |-> other, other |-> this]

\* std::swap(this->links_, other.links_)
SwapPointers(this, other) ==
  [this |-> [this EXCEPT !.links = other.links],
   other |-> [other EXCEPT !.links = this.links]]

\* this->swap(other).  With equal allocators the links_ pointers are
\* exchanged and the function ends without a return statement: the caller
\* may see either value (ret).  f1, f2: whether the copies back out.
SwapOp(bs, last, ls, this, other, f1, f2, ret) ==
  IF AllocEq(other.allocator, this.allocator)
  THEN [blocks |-> bs, last |-> last, lists |-> ls,
        this |-> SwapPointers(this, other).this,
        other |-> SwapPointers(this, other).other,
        ret |-> ret, ok |-> TRUE]
  ELSE LET defaulted_this == Chain(this.allocator, Null)
           defaulted_that == Chain(other.allocator, Null)
       IN  Only({
             Only({
               Only({ [blocks |-> c2.blocks, last |-> c2.last,
                       lists |-> c2.lists, this |-> r.this,
                       other |-> r.other, ret |-> r.ret,
                       ok |-> (c1.ok /\ c2.ok)] :
                      r \in {SwapCommit(
                        \/ ChainEq(c2.blocks, c2.lists, c1.chain,
                                   defaulted_this)
                        \/ ChainEq(c2.blocks, c2.lists, c2.chain,
                                   defaulted_that),
                        this, other, c1.chain, c2.chain)} }) :
               c2 \in {CopyLinks(c1.blocks, c1.last, c1.lists,
                                 defaulted_that, this, f2)} }) :
             c1 \in {CopyLinks(bs, last, ls, defaulted_this, other, f1)} })

\* Blocks and link lists the copies of a swap of x and y may need.
SwapFits(bs, ls, x, y) ==
  \/ AllocEq(x.allocator, y.allocator)
  \/ /\ NewListId(ls) + 1 <= MaxLists
     /\ FreshId(bs) - 1 + (IF bs[Root].state = "unborn" THEN 1 ELSE 0)
          + NumBlocks(Len(ChainContent(bs, ls, x)))
          + NumBlocks(Len(ChainContent(bs, ls, y))) <= MaxBlocks

\* a ^ b on link lists: a copy of the left operand's tuples with the right
\* operand's descriptor appended.
Concat(bs, a, b) == LinksAppend(bs, a, Descriptor(b))

\* (a ^ b) ^ c and a ^ (b ^ c).
ConcatLeft(bs, a, b, c) ==
  Only({ Concat(ab.blocks, ab.links, c) : ab \in {Concat(bs, a, b)} })

ConcatRight(bs, a, b, c) ==
  Only({ Concat(bc.blocks, a, bc.links) : bc \in {Concat(bs, b, c)} })

\* The process is alive and the run of chain operations within its bound.
ChainRunning == ~aborted /\ steps < MaxChainSteps

\* The outcomes a swap of x and y can have: whether each copy backs out
\* (differing allocators), and the value the caller sees (equal allocators).
SwapFails(x, y) == IF AllocEq(x.allocator, y.allocator) THEN {FALSE} ELSE BOOLEAN
SwapRets(x, y) == IF AllocEq(x.allocator, y.allocator) THEN BOOLEAN ELSE {TRUE}

\* chain_t(contents) with an allocator: the chain owns a link list built on
\* the blocks get_block returns.
ChainConstruct(n, allocator) ==
  /\ ChainRunning
  /\ FreshChain <= MaxChains
  /\ FreshList <= MaxLists
  /\ HasRoom(blocks, Fresh(n))
  /\ \E g \in {GetBlock(blocks, last_block, Fresh(n), allocator)} :
     \E c \in {LinksCtor(g.blocks, g.t)} :
         IF ~c.ok /\ ~ndebug THEN Abort
         ELSE /\ blocks' = g.blocks
              /\ last_block' = g.last
              /\ lists' = [lists EXCEPT ![FreshList] =
                             [state |-> "live", links |-> c.links]]
              /\ chains' = [chains EXCEPT ![FreshChain] =
                              Chain(allocator, FreshList)]
              /\ stamp' = stamp + n
              /\ op' = [NoOp EXCEPT !.name = "chain", !.l = FreshChain,
                                    !.contents = Fresh(n), !.t = g.t,
                                    !.ok = c.ok]
              /\ pre' = Snapshot
              /\ steps' = steps + 1
              /\ UNCHANGED <<ndebug, aborted>>

\* chain_t(&allocator): bound to an allocator, no elements.
ChainEmpty(allocator) ==
  /\ ChainRunning
  /\ FreshChain <= MaxChains
  /\ chains' = [chains EXCEPT ![FreshChain] = Chain(allocator, Null)]
  /\ op' = [NoOp EXCEPT !.name = "empty", !.l = FreshChain]
  /\ pre' = Snapshot
  /\ steps' = steps + 1
  /\ UNCHANGED <<blocks, last_block, lists, ndebug, aborted, stamp>>

\* chain_t copied(chains[src]).
ChainCopy(src) ==
  /\ ChainRunning
  /\ chains[src].state = "live"
  /\ FreshChain <= MaxChains
  /\ FreshList <= MaxLists
  /\ \E c \in {CopyCtor(blocks, lists, chains[src])} :
         /\ blocks' = c.blocks
         /\ lists' = c.lists
         /\ chains' = [chains EXCEPT ![FreshChain] = c.chain]
         /\ op' = [NoOp EXCEPT !.name = "copy", !.l = FreshChain, !.r = src]
         /\ pre' = Snapshot
         /\ steps' = steps + 1
         /\ UNCHANGED <<last_block, ndebug, aborted, stamp>>

\* chains[a].swap(chains[b]).
ChainSwap(a, b, f1, f2, ret) ==
  /\ ChainRunning
  /\ chains[a].state = "live" /\ chains[b].state = "live"
  /\ f1 \in SwapFails(chains[a], chains[b])
  /\ f2 \in SwapFails(chains[a], chains[b])
  /\ ret \in SwapRets(chains[a], chains[b])
  /\ SwapFits(blocks, lists, chains[a], chains[b])
  /\ \E s \in {SwapOp(blocks, last_block, lists, chains[a], chains[b],
                       f1, f2, ret)} :
         IF ~s.ok /\ ~ndebug THEN Abort
         ELSE /\ blocks' = s.blocks
              /\ last_block' = s.last
              /\ lists' = s.lists
              /\ chains' = IF a = b THEN [chains EXCEPT ![a] = s.other]
                           ELSE [chains EXCEPT ![a] = s.this, ![b] = s.other]
              /\ op' = [NoOp EXCEPT !.name = "swap", !.l = a, !.r = b,
                                    !.ok = s.ret]
              /\ pre' = Snapshot
              /\ steps' = steps + 1
              /\ UNCHANGED <<ndebug, aborted, stamp>>

\* chains[a] = chains[b]: rhs is a copy of chains[b]; rhs.swap(*this); rhs
\* goes out of scope (chain_t has no destructor of its own).
ChainAssign(a, b, f1, f2) ==
  /\ ChainRunning
  /\ chains[a].state = "live" /\ chains[b].state = "live"
  /\ f1 \in SwapFails(chains[a], chains[b])
  /\ f2 \in SwapFails(chains[a], chains[b])
  /\ FreshList <= MaxLists
  /\ \E c \in {CopyCtor(blocks, lists, chains[b])} :
         /\ SwapFits(c.blocks, c.lists, c.chain, chains[a])
         /\ \E s \in {SwapOp(c.blocks, last_block, c.lists, c.chain,
                              chains[a], f1, f2, TRUE)} :
                IF ~s.ok /\ ~ndebug THEN Abort
                ELSE /\ blocks' = s.blocks
                     /\ last_block' = s.last
                     /\ lists' = s.lists
                     /\ chains' = [chains EXCEPT ![a] = s.other]
                     /\ op' = [NoOp EXCEPT !.name = "assign", !.l = a,
                                           !.r = b, !.ok = s.ret]
                     /\ pre' = Snapshot
                     /\ steps' = steps + 1
                     /\ UNCHANGED <<ndebug, aborted, stamp>>

NextChain ==
  \/ \E n \in 0..MaxLen, al \in Allocs : ChainConstruct(n, al)
  \/ \E al \in Allocs : ChainEmpty(al)
  \/ \E c \in ChainIds : ChainCopy(c)
  \/ \E a, b \in ChainIds, f1, f2, ret \in BOOLEAN : ChainSwap(a, b, f1, f2, ret)
  \/ \E a, b \in ChainIds, f1, f2 \in BOOLEAN : ChainAssign(a, b, f1, f2)

SpecChain == Init /\ [][NextChain]_vars

\* ------------------------------------------------------------- claims
\* What the last operation ran on.
PreLinks(l) == pre.lists[l].links
PreContent(l) == Content(pre.blocks, PreLinks(l))
NowContent(l) == Content(blocks, lists[l].links)
PreLen(l) == SumLen(PreLinks(l))

\* C1: refcount conservation: every live block that holds a page has a
\* refcount equal to the number of tuples, over all live link lists, that
\* refer to it.
C1_RefcountConservation ==
  \A b \in BlockIds :
    (blocks[b].state = "live" /\ blocks[b].page # <<>>)
      => blocks[b].refcount = Referrers(lists, b)

\* C2: once a destroy or a slice has removed the last tuple on a block, the
\* block has been deleted exactly once; and no block is ever deleted twice.
C2_ReleasedExactlyOnce ==
  /\ \A b \in BlockIds : blocks[b].deleted <= 1
  /\ op.name \in {"destroy", "slice"} =>
       \A b \in BlockIds :
         (Referrers(pre.lists, b) > 0 /\ Referrers(lists, b) = 0)
           => (blocks[b].deleted = 1 /\ blocks[b].state = "freed")

\* The request of the last slice was within the content it ran on.
SliceInBounds == op.name = "slice" /\ op.offset + op.length <= PreLen(op.l)

\* C3: after slice(offset, length) within bounds the content is elements
\* [offset, offset + length) of the content before.
C3_SliceCorrect ==
  SliceInBounds =>
    NowContent(op.l)
      = SubSeq(PreContent(op.l), op.offset + 1, op.offset + op.length)

\* C4: slice(0, N) on a link list of logical length N changes nothing: the
\* tuples, the blocks (refcounts included) and the content stay as they were.
C4_FullSliceIdentity ==
  (op.name = "slice" /\ op.offset = 0 /\ op.length = PreLen(op.l)) =>
    /\ lists[op.l].links = PreLinks(op.l)
    /\ blocks = pre.blocks
    /\ NowContent(op.l) = PreContent(op.l)
    /\ op.ok

C4_Witness ==
  /\ op.name = "slice" /\ op.offset = 0 /\ op.length = PreLen(op.l)
  /\ op.length > 0
  /\ Len(lists[op.l].links) > 1

\* C5: after a's link list has had b's descriptor appended, its content is
\* a's elements followed by b's.
C5_ConcatContent ==
  op.name = "append" =>
    NowContent(op.l) = PreContent(op.l) \o PreContent(op.r)

\* C6: an operation on one link list leaves every element that could be
\* read through another live link list as it was.
C6_OthersUnchanged ==
  \A m \in ListIds :
    (op.name \notin {"init", "abort"} /\ m # op.l
       /\ pre.lists[m].state = "live" /\ lists[m].state = "live") =>
      \A k \in 1..Len(PreContent(m)) :
        PreContent(m)[k] # Undef =>
          (k <= Len(NowContent(m)) /\ NowContent(m)[k] = PreContent(m)[k])

\* The n blocks from b on, along next.
RECURSIVE Run(_, _, _)
Run(bs, b, n) ==
  IF n = 0 \/ b = Null THEN <<>> ELSE <<b>> \o Run(bs, bs[b].next, n - 1)

\* The fill counts of ceil(L/P) pages of L elements.
PagedFill(L) ==
  [i \in 1..NumBlocks(L) |->
     IF i < NumBlocks(L) THEN PageSize ELSE L - PageSize * (NumBlocks(L) - 1)]

\* C7: get_block of L > 0 elements fills ceil(L/P) consecutive blocks, P in
\* each but the last and the rest in the last, and returns length L.
C7_Paging ==
  (op.name = "construct" /\ Len(op.contents) > 0) =>
    LET L == Len(op.contents)
        run == Run(blocks, op.t.block, NumBlocks(L))
    IN  /\ Len(run) = NumBlocks(L)
        /\ [i \in 1..Len(run) |-> blocks[run[i]].filled] = PagedFill(L)
        /\ op.t.length = L

\* What the last chain operation ran on.
PreChainLinks(c) == ChainLinks(pre.lists, pre.chains[c])

DifferingSwap ==
  op.name = "swap" /\ ~AllocEq(pre.chains[op.l].allocator,
                               pre.chains[op.r].allocator)

\* C8: after a = b, a == b holds and b is as it was.
C8_AssignEquality ==
  op.name = "assign" =>
    /\ ChainEq(blocks, lists, chains[op.l], chains[op.r])
    /\ op.l # op.r =>
         (chains[op.r] = pre.chains[op.r]
            /\ ChainLinks(lists, chains[op.r]) = PreChainLinks(op.r))

C11_AllocatorsKept ==
  op.name \in {"swap", "assign"} =>
    \A c \in {op.l, op.r} : chains[c].allocator = pre.chains[c].allocator

C11_Witness ==
  /\ op.name = "swap" /\ op.l # op.r
  /\ chains[op.l].allocator # chains[op.r].allocator
  /\ AllocEq(chains[op.l].allocator, chains[op.r].allocator)
  /\ chains[op.l].links # pre.chains[op.l].links

\* C10: a swap across differing allocators that returns false leaves the
\* links_, the link lists and the allocators of both chains as they were.
C10_FailedSwapAtomic ==
  (DifferingSwap /\ ~op.ok) =>
    \A c \in {op.l, op.r} :
      /\ chains[c] = pre.chains[c]
      /\ ChainLinks(lists, chains[c]) = PreChainLinks(c)

C10_Witness ==
  /\ DifferingSwap /\ ~op.ok
  /\ \E c \in {op.l, op.r} : Len(PreChainLinks(c)) > 0

\* Live link lists that have tuples: operands of ^.
Operands == {l \in LiveLists : lists[l].links # <<>>}

\* C12: for link lists a, b and c, (a ^ b) ^ c and a ^ (b ^ c) have the same
\* elements in the same order.
C12_ConcatAssociative ==
  \A a, b, c \in Operands :
    \E x \in {ConcatLeft(blocks, lists[a].links, lists[b].links,
                          lists[c].links)} :
    \E y \in {ConcatRight(blocks, lists[a].links, lists[b].links,
                           lists[c].links)} :
      Content(x.blocks, x.links) = Content(y.blocks, y.links)

\* C13: no live link list has a tuple on a block that has been deleted.
C13_NoReleasedBlockReferenced ==
  \A l \in LiveLists : \A i \in DOMAIN lists[l].links :
    blocks[lists[l].links[i].block].state # "freed"

\* C14: a slice within the bounds of the content ends its walk with offset
\* and length both 0, so that its final assert holds.
C14_SlicePostcondition ==
  SliceInBounds => (op.endOffset = 0 /\ op.endLength = 0 /\ op.ok)

\* C15: a slice that asks for more than the content has changes no tuple
\* and no block.
C15_OutOfBoundsSliceInert ==
  (op.name = "slice" /\ op.offset + op.length > PreLen(op.l)) =>
    (lists[op.l].links = PreLinks(op.l) /\ blocks = pre.blocks)

\* C16: after a construction and after a slice every tuple of the link list
\* has a length above 0.
C16_NoEmptySegment ==
  op.name \in {"construct", "slice"} =>
    \A i \in DOMAIN lists[op.l].links : lists[op.l].links[i].length > 0

\* C17: the link list built from (first_block, start_offset, total_length)
\* has tuples whose lengths add up to total_length, none longer than what
\* its block holds from its offset on.
C17_CtorLengths ==
  op.name = "construct" =>
    /\ SumLen(lists[op.l].links) = op.t.length
    /\ \A i \in DOMAIN lists[op.l].links :
         LET t == lists[op.l].links[i]
         IN  t.length <= blocks[t.block].filled - t.offset

\* C18: every tuple of every live link list ends within the filled part of
\* its block.
C18_SegmentBounds ==
  \A l \in LiveLists : \A i \in DOMAIN lists[l].links :
    LET t == lists[l].links[i]
    IN  t.offset + t.length <= blocks[t.block].filled

\* The last append was given a descriptor on another block than the one the
\* link list ended in.
AppendNoMerge ==
  /\ op.name = "append" /\ PreLinks(op.l) # <<>>
  /\ op.t.block # PreLinks(op.l)[Len(PreLinks(op.l))].block

\* C19: an append that does not merge adds the descriptor as one new tuple
\* at the end and increments the refcount of the descriptor's block.
C19_AppendPushes ==
  AppendNoMerge =>
    /\ lists[op.l].links = Append(PreLinks(op.l), op.t)
    /\ blocks[op.t.block].refcount = pre.blocks[op.t.block].refcount + 1

\* C20: next and previous of every live block are null or a live block
\* that points back.
C20_WellLinked ==
  \A b \in BlockIds : blocks[b].state = "live" =>
    /\ blocks[b].next # Null =>
         (blocks[blocks[b].next].state = "live"
            /\ blocks[blocks[b].next].previous = b)
    /\ blocks[b].previous # Null =>
         (blocks[blocks[b].previous].state = "live"
            /\ blocks[blocks[b].previous].next = b)

\* C21: once get_block has set up its statics, last_block is not null and
\* points at a block that has not been deleted.
C21_TailNotDangling ==
  blocks[Root].state # "unborn" =>
    (last_block # Null /\ blocks[last_block].state # "freed")

====
